---- MODULE Spec2Model ----
(***************************************************************************)
(* Model of sidewalk-auto-labeler.                                         *)
(*                                                                         *)
(*   Spec      the crawl orchestrator of main.py: run_labeler with its two *)
(*             gevent pools, process_pano, the output .jsonl file and the  *)
(*             ledger already_processed.txt, over several runs that may    *)
(*             crash.                                                      *)
(*   SpecPano  one assembly of panorama.py: Panorama._fetch_panorama with  *)
(*             its boundary discovery, bulk fetch and reconstruction.      *)
(***************************************************************************)
EXTENDS Integers, Sequences, FiniteSets, TLC

\* ------------------------------------------------------------------ bounds
NumPanos == 2      \* panorama ids 1..NumPanos exist in the area
NumTiles == 2      \* coverage tiles 1..NumTiles span the bounding rectangle
MaxRuns  == 2      \* run_labeler is started at most MaxRuns times
MaxCol   == 5      \* largest Xmax of a tile pyramid
MaxRow   == 3      \* largest Ymax of a tile pyramid
MaxFail  == 1      \* at most MaxFail requests of one bulk fetch fail
MaxDiscFaults == 1 \* at most MaxDiscFaults probes of one discovery fail
TileSize == 2      \* side of a tile in pixels (512 at the tile server)

\* ------------------------------------------------------- program constants
COVERAGE_API_CONCURRENCY == 100
PROCESSING_CONCURRENCY   == 50
SeedX == 5
SeedY == 2

Panos == 1..NumPanos
Tiles == 1..NumTiles

\* main.py:72, the sources process_pano treats as indoor captures
IndoorSourcesShort == {"innerspace", "photos:legacy_innerspace"}
IndoorSources == {"innerspace", "cultural_institute", "photos:legacy_innerspace"}

\* What the external collaborators answer for one panorama id.  The answer
\* is fixed for the whole behaviour (unchanged external data); the model
\* fixes it when the first request for the id is made:
\*   a source tag : find_panorama_by_id returns metadata with that source,
\*                  tiles, detector and metadata fields are all fine
\*   "metaExc"    : find_panorama_by_id raises
\*   "metaNone"   : find_panorama_by_id returns None
\*   "notFound"   : fetch_panorama returns None or raises
\*   "detExc"     : curb_ramp_detector.detect raises
\*   "noDate"     : everything succeeds but metadata.date is None, so that
\*                  building the output record raises AttributeError
PanoKinds == IndoorSources \cup
             {"launch", "metaExc", "metaNone", "notFound", "detExc", "noDate"}

VARIABLES
  \* ---- the world of the orchestrator
  kind,                 \* [Panos -> PanoKinds], "unknown" before the first request
  inputExists,          \* "yes" | "no": is there a file at geojson_path;
                        \* "unknown" before the first open
  tileAnswer,           \* [Tiles -> "ok" | "raises"], what get_coverage_tile
                        \* does for the tile, "unknown" before the first call
  \* ---- files
  ledgerDisk,           \* lines of cache/<hash>/already_processed.txt
  ledgerBuf,            \* lines written to f_cache and not yet flushed
  jsonlDisk,            \* records (by pano id) of the .jsonl output file
  jsonlBuf,             \* records written to f_jsonl and not yet flushed
  \* ---- run_labeler
  run,                  \* number of the current run
  prevEnd,              \* how the previous run ended
  exit_status,          \* exit status of the process, -1 while main runs
  pc,                   \* position of run_labeler
  processed_ids,        \* main.py:120
  findState,            \* [Tiles -> "queued" | "running" | "done" | "merged"]
  findQueue,            \* completed find tasks, in completion order
  all_panos_in_area,    \* main.py:137, [Panos -> coordinate], 0 = no entry
  mergeOrder,           \* tiles whose result the scan loop has merged, in order
  panos_to_process_ids, \* main.py:148, a sorted sequence
  procState,            \* [Panos -> position of process_pano]
  procQueue,            \* completed process tasks, in completion order
  result,               \* [Panos -> status returned by process_pano]
  cur,                  \* pano whose result the loop body is handling
  success_count,
  fail_count,
  \* ---- history of the current run
  tileFetched,          \* ids for which fetch_panorama was called
  detected,             \* ids for which the detector was called
  wrote,                \* ids whose record was written to f_jsonl
  ledgered,             \* ids whose line was written to f_cache
  ledgerAtStart,        \* ids of the ledger file when the run started
  \* ---- the world of one assembly
  extent,               \* [Zooms -> <<Xmax, Ymax>>], the populated tiles
  oob,                  \* answer outside the extent: "black" or "err"
  lastFill,             \* <<columns, rows>> of pixels that hold image data in
                        \* the last tile column and the last tile row of the
                        \* extent, <<0, 0>> before the tiles are looked at
  \* ---- Panorama
  ppc,                  \* position of Panorama._fetch_panorama
  zoom,                 \* self.zoom, 0 = None
  x,                    \* panorama.py:60
  y,
  is_first,             \* panorama.py:62
  tiles_cache,          \* set of [c |-> <<x, y>>, tile |-> ..., zoom |-> ...]
  max_x,                \* panorama.py:127
  max_y,
  panorama_image,       \* self.panorama_image: "None" or "image"
  canvas,               \* the image of _assemble_panorama, in tile units
  outcome,              \* "none" | "NotFound" | "Success" | "Raised"
  cropped,              \* the array _crop returns: offset and size in pixels
  resize_src,           \* <<width, height>> of the array given to cv2.resize
  equi_size,            \* <<width, height>> of self.panorama_image
  \* ---- history of the assembly
  probes,               \* number of _fetch_tile calls
  fetched,              \* coordinates of the _fetch_tile calls, in call order
  requests,             \* HTTP requests <<x, y, zoom>> in issue order
  firstTile,            \* tile the first probe returned
  discFaults,           \* number of discovery probes with a failed request
  bulkFailed            \* coordinates whose bulk fetch failed

orchVars == <<kind, inputExists, tileAnswer, ledgerDisk, ledgerBuf, jsonlDisk,
              jsonlBuf, run, prevEnd, exit_status, pc, processed_ids, findState,
              findQueue, all_panos_in_area, mergeOrder, panos_to_process_ids,
              procState, procQueue,
              result, cur, success_count, fail_count,
              tileFetched, detected, wrote, ledgered, ledgerAtStart>>

panoVars == <<extent, oob, lastFill, ppc, zoom, x, y, is_first, tiles_cache,
              max_x, max_y, panorama_image, canvas, outcome, cropped, resize_src,
              equi_size, probes, fetched, requests, firstTile, discFaults,
              bulkFailed>>

\* ------------------------------------------------------------------ helpers
Range(s) == {s[i] : i \in 1..Len(s)}

Min(S) == CHOOSE m \in S : \A n \in S : m <= n

Max(S) == CHOOSE m \in S : \A n \in S : n <= m

RECURSIVE sorted(_)
\* main.py:148, sorted(list(S))
sorted(S) == IF S = {} THEN <<>> ELSE <<Min(S)>> \o sorted(S \ {Min(S)})

AllButLast(s) == IF Len(s) = 0 THEN {} ELSE {s[i] : i \in 1..(Len(s) - 1)}

\* main.py:45-50, the set of the lines of the ledger file
load_all_but_last(lines) == AllButLast(lines)
load_processed_ids(lines) == Range(lines)

\* main.py:148, the ids to process
AllFound(found, processed) == found
PendingIds(found, processed) == found \ processed

\* main.py:72, the skip test on the metadata
IsSkippedShort(k) == k = "metaNone" \/ k \in IndoorSourcesShort
IsSkipped(k) == k = "metaNone" \/ k \in IndoorSources

\* main.py:176-212, the order of the steps of the loop body for a successful
\* result; after the last one the loop takes the next result
JsonlLast == <<"build", "cache_write", "cache_flush", "jsonl_write", "jsonl_flush", "count">>
SuccessSteps == <<"build", "jsonl_write", "jsonl_flush", "cache_write", "cache_flush", "count">>

StepAfter(s) ==
  LET i == CHOOSE j \in 1..Len(SuccessSteps) : SuccessSteps[j] = s
  IN IF i = Len(SuccessSteps) THEN "loop" ELSE SuccessSteps[i + 1]

\* main.py:58-59, what coverage tile t lists inside the area: panorama p
\* lies in tile ((p - 1) mod NumTiles) + 1, and panorama 1 lies on the
\* border of tiles 1 and 2 and is listed by both.  Tile t reports coordinate t
\* for each of its panoramas.
Listing(t) == {p \in Panos : ((p - 1) % NumTiles) + 1 = t}
                \cup (IF t = 2 THEN {1} ELSE {})

Found == {p \in Panos : all_panos_in_area[p] # 0}
Pending == Range(panos_to_process_ids)
Running == {p \in Panos : procState[p] \in {"meta", "fetch", "detect"}}


\* ------------------------------------------------------------- orchestrator
Terminal == {"notfound", "returned", "reported", "raised", "crashed"}

InitRunState ==
  /\ pc = "start"
  /\ processed_ids = {}
  /\ findState = [t \in Tiles |-> "queued"]
  /\ findQueue = <<>>
  /\ all_panos_in_area = [p \in Panos |-> 0]
  /\ mergeOrder = <<>>
  /\ panos_to_process_ids = <<>>
  /\ procState = [p \in Panos |-> "none"]
  /\ procQueue = <<>>
  /\ result = [p \in Panos |-> "none"]
  /\ cur = 0
  /\ success_count = 0
  /\ fail_count = 0
  /\ tileFetched = {}
  /\ detected = {}
  /\ wrote = {}
  /\ ledgered = {}
  /\ ledgerAtStart = {}

InitOrch ==
  /\ kind = [p \in Panos |-> "unknown"]
  /\ inputExists = "unknown"
  /\ tileAnswer = [t \in Tiles |-> "unknown"]
  /\ ledgerDisk = <<>>
  /\ ledgerBuf = <<>>
  /\ jsonlDisk = <<>>
  /\ jsonlBuf = <<>>
  /\ run = 1
  /\ prevEnd = "none"
  /\ exit_status = -1
  /\ InitRunState

worldVars == <<kind, inputExists, tileAnswer>>
runVars == <<run, prevEnd, exit_status>>
fileVars == <<ledgerDisk, ledgerBuf, jsonlDisk, jsonlBuf>>
findVars == <<findState, findQueue, all_panos_in_area, mergeOrder>>
procVars == <<procState, procQueue, result>>
countVars == <<success_count, fail_count>>
histVars == <<tileFetched, detected, wrote, ledgered, ledgerAtStart>>

\* main.py:239-245, the exit status of the process for each way run_labeler
\* ends: main prints the error of a FileNotFoundError ("notfound") or of any
\* other exception ("raised") and returns like after a normal end
main_exit(end) ==
  CASE end = "notfound" -> 0
    [] end = "raised"   -> 0
    [] OTHER            -> 0

\* main.py:104-107, open(geojson_path) raises FileNotFoundError when there
\* is no such file; the exception reaches main (main.py:241-242)
LoadGeoJSON ==
  /\ pc = "start"
  /\ \E a \in (IF inputExists = "unknown" THEN {"yes", "no"} ELSE {inputExists}) :
       /\ inputExists' = a
       /\ IF a = "no"
            THEN /\ pc' = "notfound"
                 /\ exit_status' = main_exit("notfound")
            ELSE /\ pc' = "ledger"
                 /\ UNCHANGED exit_status
  /\ UNCHANGED <<kind, tileAnswer, fileVars, run, prevEnd, processed_ids, findVars,
                 panos_to_process_ids, procVars, cur, countVars, histVars, panoVars>>

\* main.py:119-121
LoadLedger ==
  /\ pc = "ledger"
  /\ processed_ids' = load_processed_ids(ledgerDisk)
  /\ pc' = "scan"
  /\ UNCHANGED <<worldVars, fileVars, runVars, findVars,
                 panos_to_process_ids, procVars, cur, countVars, histVars, panoVars>>

\* main.py:52-62, the panoramas one coverage tile contributes
fetch_panos_unguarded(t) ==
  IF \E u \in Tiles : tileAnswer[u] = "raises" THEN {} ELSE Listing(t)
fetch_panos_for_tile(t) == IF tileAnswer[t] = "raises" THEN {} ELSE Listing(t)

\* main.py:144, all_panos_in_area.update(pano_dict) with the result of tile
\* t: an id of the result gets the coordinates this tile reports
keep_first(d, t) ==
  [p \in Panos |-> IF p \in fetch_panos_for_tile(t) /\ d[p] = 0 THEN t ELSE d[p]]
update(d, t) ==
  [p \in Panos |-> IF p \in fetch_panos_for_tile(t) THEN t ELSE d[p]]

\* main.py:136-143, find_pool starts the task of tile t
FindStart(t) ==
  /\ pc = "scan"
  /\ findState[t] = "queued"
  /\ Cardinality({u \in Tiles : findState[u] = "running"}) < COVERAGE_API_CONCURRENCY
  /\ findState' = [findState EXCEPT ![t] = "running"]
  /\ UNCHANGED <<worldVars, fileVars, runVars, pc, processed_ids, findQueue,
                 all_panos_in_area, mergeOrder, panos_to_process_ids, procVars, cur,
                 countVars, histVars, panoVars>>

\* main.py:142 and 52-62, the task of tile t returns its dictionary
FindWorker(t) ==
  /\ pc = "scan"
  /\ findState[t] = "running"
  /\ \E a \in (IF tileAnswer[t] = "unknown" THEN {"ok", "raises"} ELSE {tileAnswer[t]}) :
       tileAnswer' = [tileAnswer EXCEPT ![t] = a]
  /\ findState' = [findState EXCEPT ![t] = "done"]
  /\ findQueue' = Append(findQueue, t)
  /\ UNCHANGED <<kind, inputExists, fileVars, runVars, pc, processed_ids,
                 all_panos_in_area, mergeOrder, panos_to_process_ids, procVars, cur,
                 countVars, histVars, panoVars>>

\* main.py:143-145, the loop takes the next completed tile result
MergeTile ==
  /\ pc = "scan"
  /\ findQueue # <<>>
  /\ LET t == Head(findQueue) IN
       /\ all_panos_in_area' = update(all_panos_in_area, t)
       /\ findState' = [findState EXCEPT ![t] = "merged"]
       /\ mergeOrder' = Append(mergeOrder, t)
  /\ findQueue' = Tail(findQueue)
  /\ UNCHANGED <<worldVars, fileVars, runVars, pc, processed_ids,
                 panos_to_process_ids, procVars, cur, countVars, histVars, panoVars>>

\* main.py:143, the for loop over imap_unordered ends when the result of
\* every task was yielded
SomeTileMerged == \E t \in Tiles : findState[t] = "merged"
ScanComplete == \A t \in Tiles : findState[t] = "merged"

\* main.py:147-170, after the last tile: the work selection
Select ==
  /\ pc = "scan"
  /\ ScanComplete
  /\ LET todo == sorted(PendingIds(Found, processed_ids)) IN
       /\ panos_to_process_ids' = todo
       /\ IF todo = <<>>
            THEN /\ pc' = "returned"
                 /\ exit_status' = main_exit("returned")
                 /\ UNCHANGED procState
            ELSE /\ pc' = "loop"
                 /\ procState' = [p \in Panos |->
                                    IF p \in Range(todo) THEN "queued" ELSE "none"]
                 /\ UNCHANGED exit_status
  /\ mergeOrder' = <<>>     \* the history of the scan loop ends with the loop
  /\ UNCHANGED <<worldVars, fileVars, run, prevEnd, processed_ids, findState,
                 findQueue, all_panos_in_area, procQueue, result, cur, countVars,
                 histVars, panoVars>>

InPhase2 == pc = "loop" \/ pc \in Range(SuccessSteps)

\* main.py:1-3 and 175.  The pools are gevent pools: a greenlet of the pool
\* runs only while the loop of run_labeler waits for the next result; the
\* loop body (file writes, prints) has no switch point.
LoopWaits == pc = "loop"

Return(p, status) ==
  /\ procState' = [procState EXCEPT ![p] = "returned"]
  /\ result' = [result EXCEPT ![p] = status]
  /\ procQueue' = Append(procQueue, p)

\* main.py:172-175, process_pool starts the tasks in list order
StartTask(p) ==
  /\ LoopWaits
  /\ procState[p] = "queued"
  /\ \A i \in 1..Len(panos_to_process_ids) :
       panos_to_process_ids[i] < p => procState[panos_to_process_ids[i]] # "queued"
  /\ Cardinality(Running) < PROCESSING_CONCURRENCY
  /\ procState' = [procState EXCEPT ![p] = "meta"]
  /\ UNCHANGED <<worldVars, fileVars, runVars, pc, processed_ids, findVars,
                 panos_to_process_ids, procQueue, result, cur, countVars, histVars, panoVars>>

\* main.py:69-73 and 94-95
MetaStep(p) ==
  /\ LoopWaits
  /\ procState[p] = "meta"
  /\ \E k \in (IF kind[p] = "unknown" THEN PanoKinds ELSE {kind[p]}) :
       /\ kind' = [kind EXCEPT ![p] = k]
       /\ IF k = "metaExc" THEN Return(p, "failure")
          ELSE IF IsSkipped(k) THEN Return(p, "skipped")
          ELSE /\ procState' = [procState EXCEPT ![p] = "fetch"]
               /\ UNCHANGED <<procQueue, result>>
  /\ UNCHANGED <<inputExists, tileAnswer, fileVars, runVars, pc, processed_ids, findVars,
                 panos_to_process_ids, cur, countVars, histVars, panoVars>>

\* main.py:76-78 and 94-95
FetchStep(p) ==
  /\ LoopWaits
  /\ procState[p] = "fetch"
  /\ tileFetched' = tileFetched \cup {p}
  /\ IF kind[p] = "notFound" THEN Return(p, "failure")
     ELSE /\ procState' = [procState EXCEPT ![p] = "detect"]
          /\ UNCHANGED <<procQueue, result>>
  /\ UNCHANGED <<worldVars, fileVars, runVars, pc, processed_ids, findVars,
                 panos_to_process_ids, cur, countVars, detected, wrote, ledgered, ledgerAtStart, panoVars>>

\* main.py:80-95
DetectStep(p) ==
  /\ LoopWaits
  /\ procState[p] = "detect"
  /\ detected' = detected \cup {p}
  /\ IF kind[p] = "detExc" THEN Return(p, "failure") ELSE Return(p, "success")
  /\ UNCHANGED <<worldVars, fileVars, runVars, pc, processed_ids, findVars,
                 panos_to_process_ids, cur, countVars, tileFetched, wrote, ledgered, ledgerAtStart, panoVars>>

\* main.py:176, the test that sends a result to the recording branch
NotSkipped(status) == status # "skipped"
IsSuccess(status) == status = "success"

\* main.py:175-176 and 213-216, the loop takes the next completed result
NextResult ==
  /\ pc = "loop"
  /\ procQueue # <<>>
  /\ LET p == Head(procQueue) IN
       /\ procState' = [procState EXCEPT ![p] = "consumed"]
       /\ IF IsSuccess(result[p])
            THEN /\ cur' = p
                 /\ pc' = "build"
                 /\ UNCHANGED fail_count
            ELSE /\ fail_count' = fail_count + 1
                 /\ UNCHANGED <<cur, pc>>
  /\ procQueue' = Tail(procQueue)
  /\ UNCHANGED <<worldVars, fileVars, runVars, processed_ids, findVars,
                 panos_to_process_ids, result, success_count, histVars, panoVars>>

\* main.py:179-205.  metadata.date is None makes line 184 raise; the
\* exception leaves the with block of line 169, which closes (and so
\* flushes) both files, and reaches main (main.py:243).
BuildRecord ==
  /\ pc = "build"
  /\ IF kind[cur] = "noDate"
       THEN /\ pc' = "raised"
            /\ exit_status' = main_exit("raised")
            /\ jsonlDisk' = jsonlDisk \o jsonlBuf
            /\ ledgerDisk' = ledgerDisk \o ledgerBuf
            /\ jsonlBuf' = <<>>
            /\ ledgerBuf' = <<>>
       ELSE /\ pc' = StepAfter("build")
            /\ UNCHANGED <<fileVars, exit_status>>
  /\ UNCHANGED <<worldVars, run, prevEnd, processed_ids, findVars,
                 panos_to_process_ids, procVars, cur, countVars, histVars, panoVars>>

\* main.py:206
WriteJsonl ==
  /\ pc = "jsonl_write"
  /\ jsonlBuf' = Append(jsonlBuf, cur)
  /\ wrote' = wrote \cup {cur}
  /\ pc' = StepAfter("jsonl_write")
  /\ UNCHANGED <<worldVars, ledgerDisk, ledgerBuf, jsonlDisk, runVars,
                 processed_ids, findVars, panos_to_process_ids, procVars, cur,
                 countVars, tileFetched, detected, ledgered, ledgerAtStart, panoVars>>

\* main.py:207
FlushJsonl ==
  /\ pc = "jsonl_flush"
  /\ jsonlDisk' = jsonlDisk \o jsonlBuf
  /\ jsonlBuf' = <<>>
  /\ pc' = StepAfter("jsonl_flush")
  /\ UNCHANGED <<worldVars, ledgerDisk, ledgerBuf, runVars, processed_ids,
                 findVars, panos_to_process_ids, procVars, cur, countVars, histVars, panoVars>>

\* main.py:210
WriteCache ==
  /\ pc = "cache_write"
  /\ ledgerBuf' = Append(ledgerBuf, cur)
  /\ ledgered' = ledgered \cup {cur}
  /\ pc' = StepAfter("cache_write")
  /\ UNCHANGED <<worldVars, ledgerDisk, jsonlDisk, jsonlBuf, runVars,
                 processed_ids, findVars, panos_to_process_ids, procVars, cur,
                 countVars, tileFetched, detected, wrote, ledgerAtStart, panoVars>>

\* main.py:211
FlushCache ==
  /\ pc = "cache_flush"
  /\ ledgerDisk' = ledgerDisk \o ledgerBuf
  /\ ledgerBuf' = <<>>
  /\ pc' = StepAfter("cache_flush")
  /\ UNCHANGED <<worldVars, jsonlDisk, jsonlBuf, runVars, processed_ids,
                 findVars, panos_to_process_ids, procVars, cur, countVars, histVars, panoVars>>

\* main.py:212 and 216; the result of this iteration is not used again
CountSuccess ==
  /\ pc = "count"
  /\ success_count' = success_count + 1
  /\ cur' = 0
  /\ pc' = StepAfter("count")
  /\ UNCHANGED <<worldVars, fileVars, runVars, processed_ids, findVars,
                 panos_to_process_ids, procVars, fail_count, histVars, panoVars>>

\* main.py:175 and 218-222, the loop ends after the last result; leaving the
\* with block closes both files; the final report is printed
FinalReport ==
  /\ pc = "loop"
  /\ \A p \in Pending : procState[p] = "consumed"
  /\ pc' = "reported"
  /\ exit_status' = main_exit("reported")
  /\ jsonlDisk' = jsonlDisk \o jsonlBuf
  /\ ledgerDisk' = ledgerDisk \o ledgerBuf
  /\ jsonlBuf' = <<>>
  /\ ledgerBuf' = <<>>
  /\ UNCHANGED <<worldVars, run, prevEnd, processed_ids, findVars,
                 panos_to_process_ids, procVars, cur, countVars, histVars, panoVars>>

\* the process is killed (main does not return): what the buffers of the
\* open files hold is lost
Crash ==
  /\ pc \notin Terminal
  /\ pc' = "crashed"
  /\ jsonlBuf' = <<>>
  /\ ledgerBuf' = <<>>
  /\ UNCHANGED <<worldVars, ledgerDisk, jsonlDisk, runVars, processed_ids,
                 findVars, panos_to_process_ids, procVars, cur, countVars, histVars, panoVars>>

\* main.py:97-121, the program is started again on the same geometry file
StartRun ==
  /\ pc \in Terminal
  /\ run < MaxRuns
  /\ run' = run + 1
  /\ prevEnd' = pc
  /\ exit_status' = -1
  /\ pc' = "start"
  /\ processed_ids' = {}
  /\ findState' = [t \in Tiles |-> "queued"]
  /\ findQueue' = <<>>
  /\ all_panos_in_area' = [p \in Panos |-> 0]
  /\ mergeOrder' = <<>>
  /\ panos_to_process_ids' = <<>>
  /\ procState' = [p \in Panos |-> "none"]
  /\ procQueue' = <<>>
  /\ result' = [p \in Panos |-> "none"]
  /\ cur' = 0
  /\ success_count' = 0
  /\ fail_count' = 0
  /\ tileFetched' = {}
  /\ detected' = {}
  /\ wrote' = {}
  /\ ledgered' = {}
  /\ ledgerAtStart' = Range(ledgerDisk)
  /\ UNCHANGED <<worldVars, fileVars, panoVars>>

\* ---------------------------------------------------------------- Panorama
Zooms == {3, 4}
NoExtent == <<-1, -1>>
Unseen == <<-2, -2>>

\* the extents of the tile pyramid the model ranges over: the seed tile lies
\* just outside, on the border of, or inside the extent
Extents == {<<a, b>> : a \in (SeedX - 1)..MaxCol, b \in (SeedY - 1)..MaxRow}
             \cup {NoExtent}

SeedInside(e) == SeedX <= e[1] /\ SeedY <= e[2]

\* what the tile server answers for tile (cx, cy) at zoom z: "img" a
\* populated tile, "black" the all-zero tile, "err" no tile (an exception or
\* a status other than 200)
TileSource(ext, z, cx, cy) ==
  IF cx <= ext[z][1] /\ cy <= ext[z][2] THEN "img" ELSE oob

\* panorama.py:15-19; "none" is the tile None
is_none_tile(tile) == tile = "none"
is_black_tile(tile) == tile = "none" \/ tile = "black"

\* panorama.py:21-56.  ext is the extent of each zoom, zm is self.zoom at the call (0 = None), fails is the
\* set of the zoom levels whose request fails in this call (a network error,
\* a timeout, a status other than 200).  The result is the tile returned,
\* self.zoom after the call and the HTTP requests issued.
fetch_tile_unpinned(ext, cx, cy, zm, fails) ==
  LET r1 == IF 4 \in fails THEN "err" ELSE TileSource(ext, 4, cx, cy)
      r2 == IF 3 \in fails THEN "err" ELSE TileSource(ext, 3, cx, cy)
  IN IF r1 # "err" /\ ~is_black_tile(r1)
       THEN [tile |-> r1, zoom |-> 4, reqs |-> << <<cx, cy, 4>> >>]
     ELSE IF r2 # "err"
       THEN [tile |-> r2, zoom |-> 3, reqs |-> << <<cx, cy, 4>>, <<cx, cy, 3>> >>]
     ELSE [tile |-> "none", zoom |-> zm, reqs |-> << <<cx, cy, 4>>, <<cx, cy, 3>> >>]
fetch_tile(ext, cx, cy, zm, fails) ==
  LET z1 == IF zm # 0 THEN zm ELSE 4
      r1 == IF z1 \in fails THEN "err" ELSE TileSource(ext, z1, cx, cy)
      r2 == IF 3 \in fails THEN "err" ELSE TileSource(ext, 3, cx, cy)
  IN IF r1 # "err" /\ (zm # 0 \/ ~is_black_tile(r1))
       THEN [tile |-> r1, zoom |-> z1, reqs |-> << <<cx, cy, z1>> >>]
     ELSE IF zm = 0
       THEN IF r2 # "err"
              THEN [tile |-> r2, zoom |-> 3,
                    reqs |-> << <<cx, cy, z1>>, <<cx, cy, 3>> >>]
              ELSE [tile |-> "none", zoom |-> 0,
                    reqs |-> << <<cx, cy, z1>>, <<cx, cy, 3>> >>]
     ELSE [tile |-> "none", zoom |-> zm, reqs |-> << <<cx, cy, z1>> >>]

\* tiles_cache[(cx, cy)] = tile
Put(cache, cx, cy, tile, z) ==
  {e \in cache : e.c # <<cx, cy>>} \cup {[c |-> <<cx, cy>>, tile |-> tile, zoom |-> z]}

Keys(cache) == {e.c : e \in cache}

Grid(mx, my) == {<<a, b>> : a \in 0..mx, b \in 0..my}

\* panorama.py:69-72, the test that rejects the first probe
NeverInvalid(first, tile) == FALSE
InvalidFirst(first, tile) == first /\ is_black_tile(tile)

PanoStart ==
  /\ ppc = "walk"
  /\ zoom = 0
  /\ x = SeedX
  /\ y = SeedY
  /\ is_first = TRUE
  /\ tiles_cache = {}
  /\ max_x = -1
  /\ max_y = -1
  /\ panorama_image = "None"
  /\ canvas = [w |-> 0, h |-> 0, filled |-> {}]
  /\ outcome = "none"
  /\ lastFill = <<0, 0>>
  /\ cropped = [x0 |-> 0, y0 |-> 0, w |-> 0, h |-> 0]
  /\ resize_src = <<0, 0>>
  /\ equi_size = <<0, 0>>
  /\ fetched = <<>>
  /\ probes = 0
  /\ requests = <<>>
  /\ firstTile = "unset"
  /\ discFaults = 0
  /\ bulkFailed = {}

\* panorama.py:9-13 and 59-62.  The pyramid of zoom 3 is fixed by the first
\* request that asks for it.
InitPano ==
  /\ \E e4 \in Extents : extent = [z \in Zooms |-> IF z = 4 THEN e4 ELSE Unseen]
  /\ oob \in {"black", "err"}
  /\ PanoStart

\* the assembler does not run in the orchestrator's specification
PanoIdle ==
  /\ extent = [z \in Zooms |-> NoExtent]
  /\ oob = "black"
  /\ PanoStart

panoWorld == <<extent, oob>>
imgVars == <<lastFill, cropped, resize_src, equi_size>>

\* the requests that may fail in one probe of the discovery
Faults == {{}} \cup (IF discFaults < MaxDiscFaults
                       THEN SUBSET (IF zoom = 0 THEN Zooms ELSE {zoom}) ELSE {})

\* panorama.py:64-77 and 88-89, one iteration of the diagonal walk
WalkStep ==
  /\ ppc = "walk"
  /\ \E e3 \in (IF extent[3] = Unseen THEN Extents ELSE {extent[3]}) :
     \E fl \in Faults :
     LET ext == [extent EXCEPT ![3] = e3]
         f == fetch_tile(ext, x, y, zoom, fl)
     IN
       /\ extent' = IF \E i \in 1..Len(f.reqs) : f.reqs[i][3] = 3 THEN ext ELSE extent
       /\ discFaults' = IF fl = {} THEN discFaults ELSE discFaults + 1
       /\ probes' = probes + 1
       /\ fetched' = Append(fetched, <<x, y>>)
       /\ requests' = requests \o f.reqs
       /\ zoom' = f.zoom
       /\ firstTile' = IF is_first THEN f.tile ELSE firstTile
       /\ IF f.tile = "none" \/ InvalidFirst(is_first, f.tile)
            THEN \* return None; panorama.py:123-125
                 /\ ppc' = "done"
                 /\ outcome' = "NotFound"
                 /\ is_first' = (is_first /\ f.tile = "none")
                 /\ UNCHANGED <<x, y, tiles_cache>>
            ELSE /\ is_first' = FALSE
                 /\ tiles_cache' = Put(tiles_cache, x, y, f.tile, f.zoom)
                 /\ IF is_black_tile(f.tile)
                      THEN /\ y' = y - 1
                           /\ ppc' = "sweep"
                           /\ UNCHANGED x
                      ELSE /\ x' = x + 1
                           /\ y' = y + 1
                           /\ UNCHANGED ppc
                 /\ UNCHANGED outcome
  /\ UNCHANGED <<oob, max_x, max_y, panorama_image, canvas, bulkFailed,
                 imgVars, orchVars>>

\* panorama.py:79-86, one iteration of the column sweep
SweepStep ==
  /\ ppc = "sweep"
  /\ \E fl \in Faults : LET f == fetch_tile(extent, x, y, zoom, fl) IN
       /\ discFaults' = IF fl = {} THEN discFaults ELSE discFaults + 1
       /\ probes' = probes + 1
       /\ fetched' = Append(fetched, <<x, y>>)
       /\ requests' = requests \o f.reqs
       /\ zoom' = f.zoom
       /\ tiles_cache' = Put(tiles_cache, x, y, f.tile, f.zoom)
       /\ IF is_black_tile(f.tile)
            THEN \* return x - 1, y, tiles_cache; panorama.py:127
                 /\ max_x' = x - 1
                 /\ max_y' = y
                 /\ ppc' = "bulk"
                 /\ UNCHANGED x
            ELSE /\ x' = x + 1
                 /\ UNCHANGED <<max_x, max_y, ppc>>
  /\ UNCHANGED <<panoWorld, y, is_first, panorama_image, canvas, outcome,
                 firstTile, bulkFailed, imgVars, orchVars>>

RECURSIVE SubsetsUpTo(_, _)
\* the subsets of S with at most k elements
SubsetsUpTo(S, k) ==
  IF k = 0 \/ S = {} THEN {{}}
  ELSE LET e == CHOOSE e \in S : TRUE
           rest == S \ {e}
       IN SubsetsUpTo(rest, k) \cup {T \cup {e} : T \in SubsetsUpTo(rest, k - 1)}

RECURSIVE SeqOf(_)
SeqOf(S) ==
  IF S = {} THEN <<>>
  ELSE LET e == CHOOSE e \in S : \A o \in S : e[1] < o[1] \/ (e[1] = o[1] /\ e[2] <= o[2])
       IN <<e>> \o SeqOf(S \ {e})

\* panorama.py:96-99, the coordinates the bulk fetch submits
RemainingAll(mx, my, cache) == Grid(mx, my)
Remaining(mx, my, cache) == Grid(mx, my) \ Keys(cache)

\* panorama.py:91-106 and 128.  The requests of the tiles in F fail; a tile
\* is stored only if its fetch returned one.
FetchRemaining ==
  /\ ppc = "bulk"
  /\ LET todo == Remaining(max_x, max_y, tiles_cache)
         submitted == SeqOf(todo)
     IN
       /\ probes' = probes + Len(submitted)
       /\ fetched' = fetched \o submitted
       /\ requests' = requests \o [i \in 1..Len(submitted) |->
                                     <<submitted[i][1], submitted[i][2], zoom>>]
       /\ \E F \in SubsetsUpTo(todo, MaxFail) :
            LET got == [c \in todo |-> fetch_tile(extent, c[1], c[2], zoom, IF c \in F THEN {zoom} ELSE {})] IN
              /\ tiles_cache' = tiles_cache \cup
                   {[c |-> c, tile |-> got[c].tile, zoom |-> got[c].zoom] :
                      c \in {d \in todo : got[d].tile # "none"}}
              /\ bulkFailed' = {c \in todo : got[c].tile = "none"}
  /\ ppc' = "assemble"
  /\ UNCHANGED <<panoWorld, zoom, x, y, is_first, max_x, max_y, panorama_image,
                 canvas, outcome, firstTile, discFaults, imgVars, orchVars>>

\* the pixel columns (rows) of tile column (row) a that hold image data,
\* when the extent ends with tile column (row) last, of which fill pixel
\* columns (rows) hold image data
TilePixels(a, last, fill) ==
  (a * TileSize)..(a * TileSize + (IF a = last THEN fill ELSE TileSize) - 1)

\* panorama.py:118, np.nonzero(image): the columns and the rows of the
\* canvas with a nonzero pixel, for the set of the tiles pasted
x_nonzero(filled, ext, fill) == UNION {TilePixels(c[1], ext[1], fill[1]) : c \in filled}
y_nonzero(filled, ext, fill) == UNION {TilePixels(c[2], ext[2], fill[2]) : c \in filled}

\* panorama.py:119, image[min(y):max(y), min(x):max(x)]: a slice ends before
\* its stop index
crop(xs, ys) ==
  [x0 |-> Min(xs), y0 |-> Min(ys), w |-> Max(xs) - Min(xs), h |-> Max(ys) - Min(ys)]

\* panorama.py:130, the size cv2.resize is asked for
OutputSize == <<8192, 4096>>

\* panorama.py:108-115 and 129-131.  Image.paste of a tile that is None
\* raises ValueError, which leaves Panorama.__init__; otherwise the canvas
\* has the size of the grid and holds every populated tile of the cache
\* that lies inside it; the canvas is cropped and the crop is resized
\* (cv2.resize raises for an empty array).
Assemble ==
  /\ ppc = "assemble"
  /\ IF \E e \in tiles_cache : e.tile = "none"
       THEN /\ outcome' = "Raised"
            /\ UNCHANGED <<canvas, panorama_image, imgVars>>
       ELSE \E fill \in (IF lastFill = <<0, 0>>
                           THEN (1..TileSize) \X (1..TileSize) ELSE {lastFill}) :
            LET filled == {e.c : e \in {t \in tiles_cache :
                                   t.tile = "img" /\ t.c \in Grid(max_x, max_y)}}
                c == crop(x_nonzero(filled, extent[zoom], fill),
                          y_nonzero(filled, extent[zoom], fill))
            IN /\ lastFill' = fill
               /\ canvas' = [w |-> max_x + 1, h |-> max_y + 1, filled |-> filled]
               /\ IF filled = {}
                    THEN /\ outcome' = "Raised"
                         /\ UNCHANGED <<panorama_image, cropped, resize_src, equi_size>>
                    ELSE /\ cropped' = c
                         /\ resize_src' = <<c.w, c.h>>
                         /\ IF c.w = 0 \/ c.h = 0
                              THEN /\ outcome' = "Raised"
                                   /\ UNCHANGED <<panorama_image, equi_size>>
                              ELSE /\ equi_size' = OutputSize
                                   /\ panorama_image' = "image"
                                   /\ outcome' = "Success"
  /\ ppc' = "done"
  /\ UNCHANGED <<extent, oob, zoom, x, y, is_first, tiles_cache, max_x, max_y,
                 probes, fetched, requests, firstTile, discFaults, bulkFailed,
                 orchVars>>

NextPano ==
  \/ WalkStep
  \/ SweepStep
  \/ FetchRemaining
  \/ Assemble

\* the orchestrator does not run in the assembler's specification
OrchIdle ==
  /\ kind = [p \in Panos |-> "unknown"]
  /\ inputExists = "unknown"
  /\ tileAnswer = [t \in Tiles |-> "unknown"]
  /\ ledgerDisk = <<>>
  /\ ledgerBuf = <<>>
  /\ jsonlDisk = <<>>
  /\ jsonlBuf = <<>>
  /\ run = 1
  /\ prevEnd = "none"
  /\ exit_status = -1
  /\ InitRunState

vars == <<orchVars, panoVars>>

Next ==
  \/ LoadGeoJSON
  \/ LoadLedger
  \/ \E t \in Tiles : FindStart(t)
  \/ \E t \in Tiles : FindWorker(t)
  \/ MergeTile
  \/ Select
  \/ \E p \in Panos : StartTask(p)
  \/ \E p \in Panos : MetaStep(p)
  \/ \E p \in Panos : FetchStep(p)
  \/ \E p \in Panos : DetectStep(p)
  \/ NextResult
  \/ BuildRecord
  \/ WriteJsonl
  \/ FlushJsonl
  \/ WriteCache
  \/ FlushCache
  \/ CountSuccess
  \/ FinalReport
  \/ Crash
  \/ StartRun

Init == InitOrch /\ PanoIdle

Spec == Init /\ [][Next]_vars

InitP == InitPano /\ OrchIdle

SpecPano == InitP /\ [][NextPano]_vars

\* panorama.py:58-89, _find_panorama_dimensions alone.  Its loops run in
\* one thread without waiting for anything but the answer of the tile
\* server, which the contract of the tile source promises: an iteration
\* that can be made is made.
NextDims ==
  \/ WalkStep
  \/ SweepStep

SpecDims == InitP /\ [][NextDims]_vars /\ WF_vars(NextDims)

\* ------------------------------------------------------------------- claims
IsPrefix(s, t) == Len(s) <= Len(t) /\ \A i \in 1..Len(s) : s[i] = t[i]

Handed == {p \in Panos : procState[p] \notin {"none", "queued"}}

\* C1: every id that has a line in the ledger, on disk or still in the
\* buffer of f_cache, has its output record on disk already, in every
\* state, the states left by a crash included.
C1_LedgerAfterOutput ==
  (Range(ledgerDisk) \cup Range(ledgerBuf)) \subseteq Range(jsonlDisk)

\* a crash in phase 2 after one id was recorded in the ledger and the record
\* of another one was flushed
C1_Witness ==
  /\ pc = "crashed"
  /\ Len(ledgerDisk) >= 1
  /\ Len(jsonlDisk) > Len(ledgerDisk)

\* C2: no step, a crash and the next start included, removes a line from
\* the ledger or a record from the output; a line enters the ledger only
\* for an id whose pipeline returned success and whose record is on disk; a
\* crash changes neither file; and the run after a crash selects every
\* scanned id that has no ledger line.
C2_CrashOnlyCausesRetry ==
  [][ /\ IsPrefix(ledgerDisk, ledgerDisk')
      /\ IsPrefix(jsonlDisk, jsonlDisk')
      /\ \A i \in (Len(ledgerDisk) + 1)..Len(ledgerDisk') :
           /\ result[ledgerDisk'[i]] = "success"
           /\ ledgerDisk'[i] \in detected
           /\ ledgerDisk'[i] \in Range(jsonlDisk')
      /\ pc' = "crashed" => (ledgerDisk' = ledgerDisk /\ jsonlDisk' = jsonlDisk)
      /\ (prevEnd = "crashed" /\ pc = "scan" /\ pc' \in {"loop", "returned"})
           => Range(panos_to_process_ids') = Found \ Range(ledgerDisk)
    ]_vars

\* the run after a crash between an id's output write and its ledger append
\* processes that id again
C2_Witness ==
  /\ prevEnd = "crashed"
  /\ pc = "loop"
  /\ \E p \in Pending : p \in Range(jsonlDisk) /\ p \notin Range(ledgerDisk)
  /\ Range(ledgerDisk) # {}

\* C3: once the work selection is made, the pending ids are the scanned ids
\* minus the ledger of the start of the run; only they are handed to
\* process_pano, all of them by the final report; no id of the ledger of
\* the start of the run is fetched, detected, written or recorded again.
C3_WorkSelection ==
  /\ (InPhase2 \/ pc \in {"returned", "reported", "raised"})
       => Pending = Found \ ledgerAtStart
  /\ Handed \subseteq (Found \ ledgerAtStart)
  /\ Handed \subseteq Pending
  /\ pc = "reported" => Handed = Found \ ledgerAtStart
  /\ (tileFetched \cup detected \cup wrote \cup ledgered) \cap ledgerAtStart = {}

\* a complete second run that found an id of the ledger and processed
\* another one
C3_Witness ==
  /\ pc = "reported"
  /\ Found \cap ledgerAtStart # {}
  /\ Pending # {}

\* C4: a run that follows a run that ended without a crash appends no line
\* to the ledger (the external data are the same in every run of a
\* behaviour).
C4_SecondRunAppendsNothing ==
  (run >= 2 /\ prevEnd \in {"returned", "reported", "raised"}) => ledgered = {}

\* C5: run_labeler ends with the final report (or with the early return of
\* an empty work set), never with an exception, and then every pending id
\* was taken to an outcome and tallied.
C5_ExceptionsIsolated ==
  pc \in {"returned", "reported", "raised"} =>
    /\ pc # "raised"
    /\ \A p \in Pending : procState[p] = "consumed"
    /\ success_count + fail_count = Len(panos_to_process_ids)

\* C6: an id with an indoor source gets no tile fetch and no detection call
\* and has no record in the output and no line in the ledger.
C6_IndoorLeavesNoTrace ==
  \A p \in Panos : kind[p] \in IndoorSources =>
    /\ p \notin tileFetched
    /\ p \notin detected
    /\ p \notin wrote
    /\ p \notin ledgered
    /\ p \notin Range(jsonlDisk) \cup Range(jsonlBuf)
    /\ p \notin Range(ledgerDisk) \cup Range(ledgerBuf)

\* a complete run that skipped a cultural_institute id and recorded another
C6_Witness ==
  /\ pc = "reported"
  /\ \E p \in Pending : kind[p] = "cultural_institute" /\ result[p] = "skipped"
  /\ ledgered # {}

\* C7: at the final report the failed count is the number of pending ids
\* with a failure result (the skipped ones are not among them), and the
\* succeeded count is the number of records and of ledger lines of the run.
C7_TallyPartition ==
  pc = "reported" =>
    /\ fail_count = Cardinality({p \in Pending : result[p] = "failure"})
    /\ success_count = Cardinality({p \in Pending : result[p] = "success"})
    /\ success_count = Cardinality(wrote)
    /\ success_count = Cardinality(ledgered)

\* C8: when the first probe returns the sentinel (the all-zero tile or no
\* tile), the assembly is over with panorama_image None, no other probe was
\* made and every request issued was for the seed coordinate.
C8_SentinelSeedNotFound ==
  is_black_tile(firstTile) =>
    /\ ppc = "done"
    /\ outcome = "NotFound"
    /\ panorama_image = "None"
    /\ probes = 1
    /\ \A i \in 1..Len(requests) : requests[i][1] = SeedX /\ requests[i][2] = SeedY

\* the first probe returned the all-zero tile of the zoom 3 fallback
C8_Witness ==
  /\ firstTile = "black"
  /\ outcome = "NotFound"
  /\ Len(requests) = 2

\* C9: with the all-zero sentinel, no failed request and the seed inside
\* the extent, discovery returns the extent.
C9_DiscoveryExact ==
  LET z == IF SeedInside(extent[4]) THEN 4 ELSE 3 IN
  (ppc \in {"bulk", "assemble", "done"} /\ oob = "black" /\ discFaults = 0
     /\ SeedInside(extent[z]))
    => (outcome # "NotFound" /\ <<max_x, max_y>> = extent[z])

\* C10: after a successful discovery the assembly ends in Success with a
\* canvas of the size of the grid whose blank tiles are exactly the tiles
\* whose bulk fetch failed.
C10_BulkFailuresTolerated ==
  (ppc = "done" /\ max_x >= 0) =>
    /\ outcome = "Success"
    /\ canvas.w = max_x + 1
    /\ canvas.h = max_y + 1
    /\ Grid(max_x, max_y) \ canvas.filled = bulkFailed

\* ----------------------------------------------------------- claims C11-C20
AfterSelection == InPhase2 \/ pc \in {"returned", "reported", "raised"}

\* C11: the pending set is computed and process_pano is started only after
\* every coverage tile of the scan was merged, and the mapping then holds
\* what every tile returned (nothing for a tile whose query raised).
C11_PhaseOrder ==
  (AfterSelection \/ Handed # {} \/ panos_to_process_ids # <<>>) =>
    /\ \A t \in Tiles : findState[t] = "merged" /\ tileAnswer[t] # "unknown"
    /\ findQueue = <<>>
    /\ Found = UNION {fetch_panos_for_tile(t) : t \in Tiles}

\* phase 2 runs after a scan in which every tile answered
C11_Witness ==
  /\ pc = "loop"
  /\ \E p \in Panos : procState[p] = "meta"
  /\ \A t \in Tiles : tileAnswer[t] = "ok"
  /\ Cardinality(Found) = NumPanos

\* C12: a tile task runs once (queued, running, done, merged, never back),
\* and when the scan ends the mapping holds exactly the panoramas listed by
\* the tiles whose query did not raise.
C12_TileFailureIsolated ==
  [][ /\ \A t \in Tiles : findState'[t] # findState[t] =>
             \/ <<findState[t], findState'[t]>> \in
                  {<<"queued", "running">>, <<"running", "done">>, <<"done", "merged">>}
             \/ pc' = "start"
      /\ (pc = "scan" /\ pc' \in {"loop", "returned"}) =>
             /\ Len(mergeOrder) = NumTiles
             /\ Found' = UNION {Listing(t) : t \in {u \in Tiles : tileAnswer[u] = "ok"}}
    ]_vars

\* the query of tile 1 raised, the panoramas of tile 2 are processed
C12_Witness ==
  /\ pc = "loop"
  /\ tileAnswer[1] = "raises"
  /\ tileAnswer[2] = "ok"
  /\ Found = Listing(2)
  /\ Handed # {}

\* C13: when run_labeler ends with FileNotFoundError or with another
\* exception, the process exits with a nonzero status.
C13_ErrorExitsNonzero ==
  pc \in {"notfound", "raised"} => exit_status # 0

FailureKinds == {"metaExc", "notFound", "detExc"}

\* C18: an id whose processing ends in failure has no record written and
\* no ledger line, in this run or any other, and every run that scans it
\* selects it again.
C18_FailureRetried ==
  \A p \in Panos :
    /\ (result[p] = "failure" \/ kind[p] \in FailureKinds) =>
          /\ p \notin wrote \cup ledgered
          /\ p \notin Range(jsonlDisk) \cup Range(jsonlBuf)
          /\ p \notin Range(ledgerDisk) \cup Range(ledgerBuf)
    /\ (kind[p] \in FailureKinds /\ AfterSelection /\ p \in Found) => p \in Pending

\* the second run processed again an id that failed in the first run, while
\* it recorded another id in the first run
C18_Witness ==
  /\ run = 2
  /\ prevEnd = "reported"
  /\ pc = "reported"
  /\ ledgerAtStart # {}
  /\ \E p \in Pending : result[p] = "failure" /\ kind[p] = "detExc"

\* the last tile of the merge order whose result lists p, 0 if there is none
LastListing(order, p) ==
  LET I == {i \in 1..Len(order) : p \in fetch_panos_for_tile(order[i])}
  IN IF I = {} THEN 0 ELSE order[CHOOSE i \in I : \A j \in I : j <= i]

\* C19: during the scan the mapping holds for each id the coordinates of the
\* last merged tile result that lists it; the task list names no id twice;
\* a record or a ledger line is written only for an id that has none yet
\* in this run.
C19_LastTileWins ==
  [][ /\ pc = "scan" =>
             \A p \in Panos : all_panos_in_area[p] = LastListing(mergeOrder, p)
      /\ Len(panos_to_process_ids) = Cardinality(Range(panos_to_process_ids))
      /\ Len(jsonlBuf') > Len(jsonlBuf) =>
             (cur \notin wrote /\ jsonlBuf' = Append(jsonlBuf, cur))
      /\ Len(ledgerBuf') > Len(ledgerBuf) =>
             (cur \notin ledgered /\ ledgerBuf' = Append(ledgerBuf, cur))
    ]_vars

\* panorama 1 is listed by tiles 1 and 2; the result of tile 2 was merged
\* first, so the entry carries the coordinates of tile 1
C19_Witness ==
  /\ pc = "scan"
  /\ mergeOrder = <<2, 1>>
  /\ \A t \in {1, 2} : tileAnswer[t] = "ok"
  /\ all_panos_in_area[1] = 1

\* C14: the image handed to the detector after a successful assembly is
\* 4096 wide and 2048 high, whatever the grid.
C14_CanonicalResolution ==
  outcome = "Success" => equi_size = <<4096, 2048>>

\* C15: the array that is resized is the cropped canvas with its width
\* clipped to twice its height when it is wider than that, and the cropped
\* canvas itself otherwise.
C15_AspectClamp ==
  outcome = "Success" =>
    resize_src = <<IF cropped.w > 2 * cropped.h THEN 2 * cropped.h ELSE cropped.w,
                   cropped.h>>

\* the grid discovery returns with the all-zero sentinel for the extent e
BlackGrid(e) == <<e[1], Min({e[1] - 3, e[2]})>>

\* C16: with the error sentinel, no other failed request and the seed inside
\* the extent, the assembly ends in Success with the grid that discovery
\* returns with the all-zero sentinel.
C16_ErrorSentinelSame ==
  LET z == IF SeedInside(extent[4]) THEN 4 ELSE 3 IN
  (ppc = "done" /\ oob = "err" /\ discFaults = 0 /\ bulkFailed = {}
     /\ SeedInside(extent[z]))
    => (outcome = "Success" /\ <<max_x, max_y>> = BlackGrid(extent[z]))

\* the number of the _fetch_tile calls of the sequence f for coordinate c
Calls(f, c) == Cardinality({i \in 1..Len(f) : f[i] = c})

\* C17: the bulk fetch calls _fetch_tile for exactly the coordinates of the
\* grid that discovery did not fetch, once each, so that after it every
\* coordinate of the grid was fetched exactly once.
C17_EachTileOnce ==
  [][ (ppc = "bulk" /\ ppc' = "assemble") =>
        LET bulk == SubSeq(fetched', Len(fetched) + 1, Len(fetched'))
        IN /\ IsPrefix(fetched, fetched')
           /\ Range(bulk) = Grid(max_x, max_y) \ Range(fetched)
           /\ Len(bulk) = Cardinality(Range(bulk))
           /\ \A c \in Grid(max_x, max_y) : Calls(fetched', c) = 1
    ]_vars

\* a successful assembly at zoom 3, whose first probe asked for the seed
\* at zoom 4 and then at zoom 3, with a bulk fetch
C17_Witness ==
  /\ outcome = "Success"
  /\ zoom = 3
  /\ Len(requests) = Len(fetched) + 1
  /\ Len(fetched) > Cardinality(Grid(max_x, max_y))

\* C20: the crop is the bounding box of the nonzero pixels of the canvas:
\* it starts at the first and ends with the last nonzero column and row.
C20_CropIsBoundingBox ==
  outcome = "Success" =>
    LET xs == x_nonzero(canvas.filled, extent[zoom], lastFill)
        ys == y_nonzero(canvas.filled, extent[zoom], lastFill)
    IN /\ cropped.x0 = Min(xs)
       /\ cropped.y0 = Min(ys)
       /\ cropped.x0 + cropped.w - 1 = Max(xs)
       /\ cropped.y0 + cropped.h - 1 = Max(ys)

\* ----------------------------------------------------------- claims C21-C22
\* _find_panorama_dimensions has returned: None, or a grid
DimsReturned ==
  \/ ppc = "done" /\ outcome = "NotFound" /\ max_x = -1
  \/ ppc = "bulk" /\ max_x >= 0 /\ max_y >= 0

\* the largest populated column of the pyramid the probes are made in
ProbedXmax == IF zoom = 0 THEN SeedX - 1 ELSE extent[zoom][1]

C22_ZoomFixed ==
  [][ /\ zoom # 0 => zoom' = zoom
      /\ zoom' \in {0, 3, 4}
      /\ \A e \in tiles_cache' : e.zoom = zoom' /\ zoom' # 0
      /\ zoom # 0 => \A i \in (Len(requests) + 1)..Len(requests') :
                        requests'[i][3] = zoom
      /\ outcome' = "Success" =>
            \A c \in Grid(max_x', max_y') \ bulkFailed' :
              \E e \in tiles_cache' : e.c = c /\ e.zoom = zoom'
    ]_vars

\* a successful assembly at zoom 3 of a panorama that has tiles at zoom 4
\* too, but not the seed tile: the bulk fetch asks for coordinates that
\* are populated at zoom 4
C22_Witness ==
  /\ outcome = "Success"
  /\ zoom = 3
  /\ extent[4][1] >= 0 /\ extent[4][2] >= 0
  /\ \E e \in tiles_cache : e.c = <<0, 0>> /\ e.tile = "img" /\ e.zoom = 3
  /\ <<0, 0, 3>> \in Range(requests)

====
